---- MODULE Spec2Model ----
(***************************************************************************)
(* Model of drug_detection.ipynb: the character-code encoding of SMILES    *)
(* strings, the shapes and the order of the tensor operations of the       *)
(* custom transformer (CustomTransformer, TransformerBlock,                *)
(* MultiHeadSelfAttention, FeedForwardNetwork), and the control flow of    *)
(* the two main() functions (training loop, validation loop, prediction).  *)
(* Tensors are modelled by their shapes and the set of token ids they      *)
(* hold; a forward pass is the list of tensor operations it executes, in   *)
(* execution order, each with the tensors it reads and the shape it        *)
(* produces.  Real-valued tensor contents are not modelled.                *)
(***************************************************************************)
EXTENDS Integers, Sequences, FiniteSets, TLC

\* ------------------------------------------------------------ constants
\* Program constants of main() (cell 7 of the notebook).
max_len == 100
vocab_size == 128
batch_size == 16
num_epochs == 20
step_size == 5
main_embed_dim == 256
main_num_heads == 8
main_ff_dim == 512
main_num_layers == 4
\* Rows of the positional-encoding table: torch.zeros(1, 100, embed_dim).
pos_rows == 100
\* test_size=0.2 is one row in five.
test_den == 5
\* Program constants of the second main() (ChemBERTa fine-tuning).
bert_epochs == 10
bert_max_length == 100

\* ------------------------------------------------------------ bounds
\* Longest free prefix of the strings the encoding is applied to.
MaxHead == 2
\* How far past max_len the generated strings and sequences reach.
Over == 1
\* Hyperparameters and input shapes the component harness draws from.
MaxEmbed == 4
MaxHeads == 3
MaxFF == 2
MaxLayers == 2
MaxClasses == 2
MaxBatch == 2
MaxSeq == 2
\* Dataset sizes of main(): 0..SmallRows, MidRows (two test rows) and BigRows
\* (two training batches).
SmallRows == 3
MidRows == 6
BigRows == 22

\* ------------------------------------------------------------ strings
\* Characters are named; ord gives the Unicode code point Python's ord()
\* returns for them.  "U+00E9" is a non-ASCII letter (e with acute accent).
Chars == {"C", "U+00E9"}

ord(c) ==
    CASE c = "C" -> 67
      [] c = "U+00E9" -> 233

Repeat(c, n) == [i \in 1..n |-> c]

\* Python list repetition: [0] * n is the empty list for n <= 0.
ListRepeat(v, n) == IF n > 0 THEN [i \in 1..n |-> v] ELSE <<>>

\* An encoding that pads on the left.
PadEncodeLeft(smile, maxlen) ==
    ListRepeat(0, maxlen - Len(smile)) \o [i \in 1..Len(smile) |-> ord(smile[i])]

\* [ord(c) for c in smile] + [0] * (max_len - len(smile))
PadEncode(smile, maxlen) ==
    [i \in 1..Len(smile) |-> ord(smile[i])] \o ListRepeat(0, maxlen - Len(smile))

\* SmilesDataset.__getitem__: the padded token list and the label.
SmilesDataset_getitem(self, idx) ==
    [tokens |-> PadEncode(self.smiles[idx], self.max_len), label |-> self.labels[idx]]

\* ------------------------------------------------------------ shapes
\* The outcome of one tensor operation: the shape of its result, or the error
\* it raises.  poison marks a result computed by a CUDA kernel whose
\* device-side assertion failed: the error is raised at a later
\* synchronisation point.
Ok(shape) == [ok |-> TRUE, shape |-> shape, err |-> "none", poison |-> FALSE]
Err(e) == [ok |-> FALSE, shape |-> <<>>, err |-> e, poison |-> FALSE]
Poisoned(shape) == [ok |-> TRUE, shape |-> shape, err |-> "none", poison |-> TRUE]

RECURSIVE Numel(_)
Numel(shape) == IF shape = <<>> THEN 1 ELSE Head(shape) * Numel(Tail(shape))

SetLast(shape, d) == [shape EXCEPT ![Len(shape)] = d]

\* nn.Linear(in_features, out_features) applied to a tensor.
Linear(shape, in_features, out_features) ==
    IF Len(shape) >= 1 /\ shape[Len(shape)] = in_features
    THEN Ok(SetLast(shape, out_features))
    ELSE Err("linear: size mismatch")

\* Tensor.view(*new): the number of elements must agree.
View(shape, new) ==
    IF Numel(shape) = Numel(new) THEN Ok(new) ELSE Err("view: invalid shape")

\* Tensor.transpose(i, j) with 1-based positions i, j.
Transpose(shape, i, j) ==
    IF i \in 1..Len(shape) /\ j \in 1..Len(shape)
    THEN Ok([shape EXCEPT ![i] = shape[j], ![j] = shape[i]])
    ELSE Err("transpose: dimension out of range")

BroadcastDim(a, b) == IF a = b THEN a ELSE IF a = 1 THEN b ELSE IF b = 1 THEN a ELSE -1

\* A shape padded on the left with ones up to rank n.
PadLeft(a, n) == [i \in 1..n |-> IF i <= n - Len(a) THEN 1 ELSE a[i - (n - Len(a))]]

\* Elementwise a + b with broadcasting: shapes are aligned on the right, and
\* two sizes are compatible when they are equal or one of them is 1.
Add(a, b) ==
    LET n == IF Len(a) >= Len(b) THEN Len(a) ELSE Len(b)
        pa == PadLeft(a, n)
        pb == PadLeft(b, n)
    IN  IF \A i \in 1..n : BroadcastDim(pa[i], pb[i]) >= 0
        THEN Ok([i \in 1..n |-> BroadcastDim(pa[i], pb[i])])
        ELSE Err("add: size mismatch")

\* torch.matmul of two 4-d tensors: batch dimensions broadcast, inner ones agree.
MatMul(a, b) ==
    IF /\ Len(a) = 4 /\ Len(b) = 4
       /\ BroadcastDim(a[1], b[1]) >= 0 /\ BroadcastDim(a[2], b[2]) >= 0
       /\ a[4] = b[3]
    THEN Ok(<<BroadcastDim(a[1], b[1]), BroadcastDim(a[2], b[2]), a[3], b[4]>>)
    ELSE Err("matmul: size mismatch")

\* nn.LayerNorm(normalized_shape) normalises over the last dimension.
LayerNorm(shape, normalized_shape) ==
    IF Len(shape) >= 1 /\ shape[Len(shape)] = normalized_shape
    THEN Ok(shape)
    ELSE Err("layer_norm: size mismatch")

\* Tensor.mean(dim=1): the second dimension is reduced away.
Mean1(shape) ==
    IF Len(shape) >= 2
    THEN Ok([i \in 1..(Len(shape) - 1) |-> IF i = 1 THEN shape[1] ELSE shape[i + 1]])
    ELSE Err("mean: dimension out of range")

\* t[:, :n, :] of a 3-d tensor: the slice is clamped to the rows there are.
Slice1Unclamped(shape, n) == Ok(<<shape[1], n, shape[3]>>)

Slice1(shape, n) == Ok(<<shape[1], IF n < shape[2] THEN n ELSE shape[2], shape[3]>>)

\* nn.Embedding lookup of a tensor of token ids.  An id outside
\* [0, num_embeddings) raises IndexError on the CPU; on CUDA the kernel's
\* assertion fails and the error surfaces either at once or (late) at the next
\* synchronisation, the lookup having returned a tensor.
EmbeddingLookup(emb, x, device, late) ==
    IF x.ids \subseteq 0..(emb.num_embeddings - 1)
    THEN Ok(x.shape \o <<emb.embedding_dim>>)
    ELSE IF device = "cuda" /\ late
         THEN Poisoned(x.shape \o <<emb.embedding_dim>>)
         ELSE Err("embedding: index out of range")

\* ------------------------------------------------------------ modules
LinearInit(in_features, out_features) ==
    [in_features |-> in_features, out_features |-> out_features]

\* MultiHeadSelfAttention.__init__
MultiHeadSelfAttention_init(embed_dim, num_heads) ==
    [num_heads |-> num_heads,
     embed_dim |-> embed_dim,
     head_dim  |-> embed_dim \div num_heads,
     query     |-> LinearInit(embed_dim, embed_dim),
     key       |-> LinearInit(embed_dim, embed_dim),
     value     |-> LinearInit(embed_dim, embed_dim),
     fc_out    |-> LinearInit(embed_dim, embed_dim)]

\* FeedForwardNetwork.__init__
\* A feed-forward network whose second layer does not project back to
\* embed_dim: its output is not of the shape of its input.
FeedForwardNetwork_init_wide(embed_dim, ff_dim) ==
    [fc1 |-> LinearInit(embed_dim, ff_dim),
     fc2 |-> LinearInit(ff_dim, ff_dim + embed_dim)]

FeedForwardNetwork_init(embed_dim, ff_dim) ==
    [fc1 |-> LinearInit(embed_dim, ff_dim),
     fc2 |-> LinearInit(ff_dim, embed_dim)]

\* TransformerBlock.__init__
TransformerBlock_init(embed_dim, num_heads, ff_dim) ==
    [attention |-> MultiHeadSelfAttention_init(embed_dim, num_heads),
     norm1     |-> embed_dim,
     ffn       |-> FeedForwardNetwork_init(embed_dim, ff_dim),
     norm2     |-> embed_dim]

\* A model whose final projection has one output more than there are classes.
CustomTransformer_init_extra_class(vocab, embed_dim, num_heads, ff_dim, num_layers, num_classes) ==
    [built      |-> TRUE,
     embedding  |-> [num_embeddings |-> vocab, embedding_dim |-> embed_dim],
     positional_encoding |-> <<1, pos_rows, embed_dim>>,
     layers     |-> [i \in 1..num_layers |->
                        TransformerBlock_init(embed_dim, num_heads, ff_dim)],
     fc         |-> LinearInit(embed_dim, num_classes + 1)]

\* CustomTransformer.__init__
CustomTransformer_init(vocab, embed_dim, num_heads, ff_dim, num_layers, num_classes) ==
    [built      |-> TRUE,
     embedding  |-> [num_embeddings |-> vocab, embedding_dim |-> embed_dim],
     positional_encoding |-> <<1, pos_rows, embed_dim>>,
     layers     |-> [i \in 1..num_layers |->
                        TransformerBlock_init(embed_dim, num_heads, ff_dim)],
     fc         |-> LinearInit(embed_dim, num_classes)]

NoModel == [built |-> FALSE]

\* ------------------------------------------------------------ forward pass
\* A forward pass in progress: the input tensor x (tensor 0), the operations
\* executed so far (operation k produces tensor k), the local names bound to
\* tensors and sizes, and the error that ended the pass, if any.
Begin(x) ==
    [x |-> x, log |-> <<>>, err |-> "none", poisoned |-> FALSE, env |-> ("x" :> 0)]

Last(st) == Len(st.log)

Sh(st, id) ==
    IF id = 0 THEN st.x.shape
    ELSE IF id \in 1..Len(st.log) THEN st.log[id].shape ELSE <<>>

Dim(shape, i) == IF i \in 1..Len(shape) THEN shape[i] ELSE 0

\* The tensor operations the forward methods call.
LinearOp(lin) == [kind |-> "linear", lin |-> lin]
ViewOp(sizes, dims) == [kind |-> "view", sizes |-> sizes, dims |-> dims]
TransposeOp(d0, d1) == [kind |-> "transpose", d0 |-> d0, d1 |-> d1]
AddOp == [kind |-> "add"]
MatMulOp == [kind |-> "matmul"]
SameShapeOp == [kind |-> "same"]
LayerNormOp(norm) == [kind |-> "layer_norm", norm |-> norm]
MeanOp == [kind |-> "mean"]
SliceOp(param, n) == [kind |-> "slice", param |-> param, n |-> n]
EmbeddingOp(emb, x, device, late) ==
    [kind |-> "embedding", emb |-> emb, x |-> x, device |-> device, late |-> late]
BindOp == [kind |-> "bind"]
SizeOp == [kind |-> "size"]

\* One statement of a forward method: target = f(args).
Stmt(layer, mod, op, args, f, target) ==
    [layer |-> layer, mod |-> mod, op |-> op, args |-> args, f |-> f, target |-> target]

\* The result of operation f on arguments of shapes a, the local names having
\* the values env.
Apply(f, a, env) ==
    CASE f.kind = "linear" -> Linear(a[1], f.lin.in_features, f.lin.out_features)
      [] f.kind = "view" -> View(a[1], [k \in DOMAIN f.sizes |-> env[f.sizes[k]]] \o f.dims)
      [] f.kind = "transpose" -> Transpose(a[1], f.d0, f.d1)
      [] f.kind = "add" -> Add(a[1], a[2])
      [] f.kind = "matmul" -> MatMul(a[1], a[2])
      [] f.kind = "same" -> Ok(a[1])
      [] f.kind = "layer_norm" -> LayerNorm(a[1], f.norm)
      [] f.kind = "mean" -> Mean1(a[1])
      [] f.kind = "slice" -> Slice1(f.param, f.n)
      [] f.kind = "embedding" -> EmbeddingLookup(f.emb, f.x, f.device, f.late)

ArgIds(st, args) == [k \in DOMAIN args |-> st.env[args[k]]]

ArgShapes(st, args) == [k \in DOMAIN args |-> Sh(st, st.env[args[k]])]

\* The operation of statement s has returned res.
Commit(st, s, ids, res) ==
    IF ~res.ok THEN [st EXCEPT !.err = res.err]
    ELSE [st EXCEPT
            !.log = Append(@, [layer |-> s.layer, mod |-> s.mod, op |-> s.op,
                               args |-> ids, shape |-> res.shape]),
            !.poisoned = @ \/ res.poison,
            !.env = (s.target :> (Len(st.log) + 1)) @@ @]

\* batch_size, seq_length, embed_dim = x.size()
Unpack3(st, shape) ==
    IF Len(shape) # 3 THEN [st EXCEPT !.err = "unpack: expected 3 values"]
    ELSE [st EXCEPT !.env = ("batch_size" :> shape[1]) @@ ("seq_length" :> shape[2])
                            @@ ("embed_dim" :> shape[3]) @@ @]

\* Executes one statement: a call binding its parameter, a size unpacking, or
\* a tensor operation.
Exec(st, s) ==
    CASE s.f.kind = "bind" -> [st EXCEPT !.env = (s.target :> st.env[s.args[1]]) @@ @]
      [] s.f.kind = "size" -> Unpack3(st, Sh(st, st.env[s.args[1]]))
      [] OTHER -> Commit(st, s, ArgIds(st, s.args),
                         Apply(s.f, ArgShapes(st, s.args), st.env))

\* The statements run in order; nothing runs after an exception.
RECURSIVE Run(_, _, _)
Run(st, prog, i) ==
    IF st.err # "none" \/ i > Len(prog) THEN st
    ELSE Run(Exec(st, prog[i]), prog, i + 1)

\* self.<proj>(x).view(batch_size, seq_length, self.num_heads, self.head_dim).transpose(1, 2)
ProjectHeads(self, layer, proj, lin, target) ==
    << Stmt(layer, "attention", proj, <<"attention.x">>, LinearOp(lin), "attention.t"),
       Stmt(layer, "attention", "view_" \o proj, <<"attention.t">>,
            ViewOp(<<"batch_size", "seq_length">>, <<self.num_heads, self.head_dim>>),
            "attention.t"),
       Stmt(layer, "attention", "transpose_" \o proj, <<"attention.t">>,
            TransposeOp(2, 3), target) >>

\* An attention that masks the scores before the softmax.
MultiHeadSelfAttention_forward_masked(self, layer, arg, target) ==
    << Stmt(layer, "attention", "call", <<arg>>, BindOp, "attention.x"),
       Stmt(layer, "attention", "size", <<"attention.x">>, SizeOp, "") >>
    \o ProjectHeads(self, layer, "query", self.query, "Q")
    \o ProjectHeads(self, layer, "key", self.key, "K")
    \o ProjectHeads(self, layer, "value", self.value, "V")
    \o << Stmt(layer, "attention", "transpose_kt", <<"K">>, TransposeOp(3, 4),
               "attention.t"),
          Stmt(layer, "attention", "matmul_qk", <<"Q", "attention.t">>, MatMulOp,
               "attention.t"),
          Stmt(layer, "attention", "scale", <<"attention.t">>, SameShapeOp, "scores"),
          Stmt(layer, "attention", "masked_fill", <<"scores">>, SameShapeOp, "scores"),
          Stmt(layer, "attention", "softmax", <<"scores">>, SameShapeOp, "attention"),
          Stmt(layer, "attention", "matmul_av", <<"attention", "V">>, MatMulOp, "out"),
          Stmt(layer, "attention", "transpose_out", <<"out">>, TransposeOp(2, 3),
               "attention.t"),
          Stmt(layer, "attention", "view_out", <<"attention.t">>,
               ViewOp(<<"batch_size", "seq_length", "embed_dim">>, <<>>), "out"),
          Stmt(layer, "attention", "fc_out", <<"out">>, LinearOp(self.fc_out), target) >>

\* MultiHeadSelfAttention.forward, called on arg, its result bound to target.
MultiHeadSelfAttention_forward(self, layer, arg, target) ==
    << Stmt(layer, "attention", "call", <<arg>>, BindOp, "attention.x"),
       Stmt(layer, "attention", "size", <<"attention.x">>, SizeOp, "") >>
    \o ProjectHeads(self, layer, "query", self.query, "Q")
    \o ProjectHeads(self, layer, "key", self.key, "K")
    \o ProjectHeads(self, layer, "value", self.value, "V")
    \o << Stmt(layer, "attention", "transpose_kt", <<"K">>, TransposeOp(3, 4),
               "attention.t"),
          Stmt(layer, "attention", "matmul_qk", <<"Q", "attention.t">>, MatMulOp,
               "attention.t"),
          Stmt(layer, "attention", "scale", <<"attention.t">>, SameShapeOp, "scores"),
          Stmt(layer, "attention", "softmax", <<"scores">>, SameShapeOp, "attention"),
          Stmt(layer, "attention", "matmul_av", <<"attention", "V">>, MatMulOp, "out"),
          Stmt(layer, "attention", "transpose_out", <<"out">>, TransposeOp(2, 3),
               "attention.t"),
          Stmt(layer, "attention", "view_out", <<"attention.t">>,
               ViewOp(<<"batch_size", "seq_length", "embed_dim">>, <<>>), "out"),
          Stmt(layer, "attention", "fc_out", <<"out">>, LinearOp(self.fc_out), target) >>

\* FeedForwardNetwork.forward: self.fc2(self.relu(self.fc1(x)))
FeedForwardNetwork_forward(self, layer, arg, target) ==
    << Stmt(layer, "ffn", "call", <<arg>>, BindOp, "ffn.x"),
       Stmt(layer, "ffn", "fc1", <<"ffn.x">>, LinearOp(self.fc1), "ffn.t"),
       Stmt(layer, "ffn", "relu", <<"ffn.t">>, SameShapeOp, "ffn.t"),
       Stmt(layer, "ffn", "fc2", <<"ffn.t">>, LinearOp(self.fc2), target) >>

\* A block whose feed-forward sublayer reads the block's input instead of the
\* normalised sum.
TransformerBlock_forward_skip(self, layer, arg, target) ==
    << Stmt(layer, "block", "call", <<arg>>, BindOp, "block.x") >>
    \o MultiHeadSelfAttention_forward(self.attention, layer, "block.x", "attn_output")
    \o << Stmt(layer, "block", "add1", <<"block.x", "attn_output">>, AddOp, "block.t"),
          Stmt(layer, "block", "norm1", <<"block.t">>, LayerNormOp(self.norm1),
               "block.x") >>
    \o FeedForwardNetwork_forward(self.ffn, layer, arg, "ffn_output")
    \o << Stmt(layer, "block", "add2", <<"block.x", "ffn_output">>, AddOp, "block.t"),
          Stmt(layer, "block", "norm2", <<"block.t">>, LayerNormOp(self.norm2),
               target) >>

\* TransformerBlock.forward, called on arg, its result bound to target.
TransformerBlock_forward(self, layer, arg, target) ==
    << Stmt(layer, "block", "call", <<arg>>, BindOp, "block.x") >>
    \o MultiHeadSelfAttention_forward(self.attention, layer, "block.x", "attn_output")
    \o << Stmt(layer, "block", "add1", <<"block.x", "attn_output">>, AddOp, "block.t"),
          Stmt(layer, "block", "norm1", <<"block.t">>, LayerNormOp(self.norm1),
               "block.x") >>
    \o FeedForwardNetwork_forward(self.ffn, layer, "block.x", "ffn_output")
    \o << Stmt(layer, "block", "add2", <<"block.x", "ffn_output">>, AddOp, "block.t"),
          Stmt(layer, "block", "norm2", <<"block.t">>, LayerNormOp(self.norm2),
               target) >>

\* The blocks applied last to first.
RECURSIVE ApplyLayersReversed(_, _)
ApplyLayersReversed(layers, i) ==
    IF i > Len(layers) THEN <<>>
    ELSE ApplyLayersReversed(layers, i + 1)
         \o TransformerBlock_forward(layers[i], i, "x", "x")

\* for layer in self.layers: x = layer(x)
RECURSIVE ApplyLayers(_, _)
ApplyLayers(layers, i) ==
    IF i > Len(layers) THEN <<>>
    ELSE TransformerBlock_forward(layers[i], i, "x", "x") \o ApplyLayers(layers, i + 1)

\* CustomTransformer.forward
CustomTransformer_forward(self, x, device, late) ==
    Run(Begin(x),
        << Stmt(0, "model", "embedding", <<"x">>,
                EmbeddingOp(self.embedding, x, device, late), "embedded"),
           Stmt(0, "model", "positional_encoding", <<>>,
                SliceOp(self.positional_encoding, Dim(x.shape, 2)), "positions"),
           Stmt(0, "model", "add_pos", <<"embedded", "positions">>, AddOp, "x") >>
        \o ApplyLayers(self.layers, 1)
        \o << Stmt(0, "model", "mean", <<"x">>, MeanOp, "x"),
              Stmt(0, "model", "fc", <<"x">>, LinearOp(self.fc), "out") >>,
        1)

\* ------------------------------------------------------------ data pipeline
Min(a, b) == IF a <= b THEN a ELSE b

RECURSIVE KSubsets(_, _)
KSubsets(S, k) ==
    IF k = 0 THEN {{}}
    ELSE IF S = {} THEN {}
    ELSE LET x == CHOOSE y \in S : TRUE
         IN  KSubsets(S \ {x}, k) \cup {T \cup {x} : T \in KSubsets(S \ {x}, k - 1)}

\* A tensor of token ids: its shape, the ids it holds and its distinct rows.
NoTensor == [shape |-> <<>>, ids |-> {}, rows |-> {}]

\* LabelEncoder.fit_transform: a label is the rank of the value among the
\* sorted distinct values.
LabelOf(classes, v) == Cardinality({c \in classes : c < v})

\* train_test_split(test_size=0.2): ceil(0.2 * n) rows are test rows.
NumTest(n) == (n + test_den - 1) \div test_den
NumTrain(n) == n - NumTest(n)

\* The tokenizer of the second notebook cell is pretrained and external:
\* padding='max_length', truncation=True, max_length=100 yield 100 ids.
Tokenizer(s) == [i \in 1..bert_max_length |-> 0]

\* What a dataset of the given notebook cell returns for row idx.
GetItem(path, dataset, idx) ==
    IF path = "custom" THEN SmilesDataset_getitem(dataset, idx)
    ELSE [tokens |-> Tokenizer(dataset.smiles[idx]), label |-> dataset.labels[idx]]

Range(f) == {f[i] : i \in DOMAIN f}

RECURSIVE SortedSeq(_)
SortedSeq(S) ==
    IF S = {} THEN <<>>
    ELSE LET m == CHOOSE x \in S : \A y \in S : x <= y
         IN  <<m>> \o SortedSeq(S \ {m})

\* DataLoader's default collate: the items are stacked into one tensor, which
\* needs them to have one length.  Items are kept in row order.
Collate(path, dataset, rows) ==
    LET order == SortedSeq(rows)
        items == [k \in 1..Len(order) |-> GetItem(path, dataset, order[k])]
        lens == {Len(items[k].tokens) : k \in 1..Len(items)}
    IN  IF Cardinality(lens) # 1
        THEN [ok |-> FALSE, smiles |-> NoTensor, labels |-> <<>>]
        ELSE [ok |-> TRUE,
              smiles |-> [shape |-> <<Len(items), CHOOSE l \in lens : TRUE>>,
                          ids |-> UNION {Range(items[k].tokens) : k \in 1..Len(items)},
                          rows |-> {items[k].tokens : k \in 1..Len(items)}],
              labels |-> [k \in 1..Len(items) |-> items[k].label]]

\* main: [ord(c) for c in input_smiles] + [0] * (max_len - len(input_smiles)),
\* wrapped in a batch of one.
EncodeInput(input_smiles) ==
    LET input_smiles_padded == PadEncode(input_smiles, max_len)
    IN  [shape |-> <<1, Len(input_smiles_padded)>>,
         ids |-> Range(input_smiles_padded),
         rows |-> {input_smiles_padded}]

\* The fine-tuned pretrained classifier: an external model returning one logit
\* per label for each row.
Pretrained_forward(self, x) ==
    [log |-> <<[layer |-> 0, mod |-> "pretrained", op |-> "logits", args |-> <<0>>,
                shape |-> <<Dim(x.shape, 1), self.num_labels>>]>>,
     err |-> "none", poisoned |-> FALSE]

\* What the caller of a forward pass gets: the logits' shape, or the error.
Outcome(st) ==
    [ok |-> st.err = "none",
     shape |-> IF st.err = "none" THEN st.log[Len(st.log)].shape ELSE <<>>,
     err |-> st.err,
     poisoned |-> st.poisoned,
     nops |-> Len(st.log)]

\* model(...) of either notebook cell.
ModelCall(path, self, x, device, late) ==
    Outcome(IF path = "custom" THEN CustomTransformer_forward(self, x, device, late)
            ELSE Pretrained_forward(self, x))

NoOutputs == [ok |-> FALSE, shape |-> <<>>, err |-> "none", poisoned |-> FALSE, nops |-> 0]

\* ------------------------------------------------------------ parameters
ParamNames(path) ==
    IF path = "custom" THEN {"embedding", "positional_encoding", "layers", "fc"}
    ELSE {"encoder", "classifier"}

\* Every parameter tensor carries the number of updates applied to it.
\* optimizer.step() updates every parameter tensor.
OptimizerStep(p) == [t \in DOMAIN p |-> p[t] + 1]

\* A forward pass that updates the parameters it reads.
ForwardEffectInPlace(p) == [t \in DOMAIN p |-> p[t] + 1]

\* A forward pass reads the parameters and assigns none of them.
ForwardEffect(p) == p

\* A zero_grad() that keeps the accumulated gradients.
ZeroGradKeep(g) == g

\* optimizer.zero_grad() drops the accumulated gradients.
ZeroGrad(g) == {}

\* loss.backward() accumulates the gradient of the batch into .grad.
Backward(g, batch) == g \cup {batch}

NumEpochs(path) == IF path = "custom" THEN num_epochs ELSE bert_epochs

\* ------------------------------------------------------------ state
VARIABLES
    mdl,     \* harness: the CustomTransformer under test, once constructed
    cargs,   \* harness: the arguments of the constructor call
    fwd,     \* harness: the last forward pass of mdl
    pc,              \* main: the statement to execute next
    path,            \* main: which notebook cell runs ("custom" or "bert")
    device,          \* main: "cuda" if torch.cuda.is_available() else "cpu"
    csv,             \* main: the rows of the CSV file
    classes,         \* main: label_encoder.classes_
    train_dataset,
    test_dataset,
    model,
    params,          \* main: update count of every parameter tensor
    grad,            \* main: the batches whose gradients .grad holds
    training,        \* main: model.training
    grad_enabled,    \* main: FALSE inside torch.no_grad()
    last_epoch,      \* main: scheduler.last_epoch
    lr_halvings,     \* main: how many times the scheduler halved the rate
    epoch,
    remaining,       \* main: rows the running loader iteration has not served
    batch_no,        \* main: batches served by the running loader iteration
    smiles,
    labels,
    outputs,
    loss,            \* main: the batch the loss was computed on
    total_loss,      \* main: the number of batch losses summed
    correct,
    total,
    input_smiles,
    inputs,
    predicted_label,
    err,             \* main: the exception that ended main, or "none"
    cuda_fault,      \* main: a device-side assertion has failed
    iter_ops,        \* main: the statements of the running training iteration
    step_grad,       \* main: the gradients the last optimizer step read
    opt_steps        \* main: optimizer steps completed

hvars == <<mdl, cargs, fwd>>

mvars ==
    <<pc, path, device, csv, classes, train_dataset, test_dataset, model, params,
      grad, training, grad_enabled, last_epoch, lr_halvings, epoch, remaining,
      batch_no, smiles, labels, outputs, loss, total_loss, correct, total,
      input_smiles, inputs, predicted_label, err, cuda_fault, iter_ops, step_grad,
      opt_steps>>

vars == <<hvars, mvars>>

NoForward == [called |-> FALSE]

NoDataset == [smiles |-> <<>>, labels |-> <<>>, max_len |-> max_len]

\* The values main()'s variables have before main() assigns them.
Unassigned ==
    /\ classes = {}
    /\ train_dataset = NoDataset
    /\ test_dataset = NoDataset
    /\ model = NoModel
    /\ params = <<>>
    /\ grad = {}
    /\ training = TRUE
    /\ grad_enabled = TRUE
    /\ last_epoch = 0
    /\ lr_halvings = 0
    /\ epoch = 0
    /\ remaining = {}
    /\ batch_no = 0
    /\ smiles = NoTensor
    /\ labels = <<>>
    /\ outputs = NoOutputs
    /\ loss = <<>>
    /\ total_loss = 0
    /\ correct = 0
    /\ total = 0
    /\ input_smiles = <<>>
    /\ inputs = NoTensor
    /\ predicted_label = 0
    /\ err = "none"
    /\ cuda_fault = FALSE
    /\ iter_ops = <<>>
    /\ step_grad = {}
    /\ opt_steps = 0

\* ------------------------------------------------------------ component harness
\* The classes are driven directly: one constructor call with hyperparameters
\* drawn from the bounded sets, then forward passes on inputs of drawn shapes.
SeqLens == (0..MaxSeq) \cup ((pos_rows - Over)..(pos_rows + Over))

\* Token ids a test input holds: all within the vocabulary, or one outside it.
IdSets == {{0, ord("C")}, {0, ord("U+00E9")}}

InitModel ==
    /\ mdl = NoModel
    /\ cargs = [called |-> FALSE]
    /\ fwd = NoForward
    /\ pc = "idle"
    /\ path = "custom"
    /\ device = "cpu"
    /\ csv = [smiles |-> <<>>, compound |-> <<>>]
    /\ Unassigned

Construct(embed_dim, num_heads, ff_dim, num_layers, num_classes) ==
    /\ ~mdl.built
    /\ cargs' = [called |-> TRUE, embed_dim |-> embed_dim, num_heads |-> num_heads,
                 ff_dim |-> ff_dim, num_layers |-> num_layers,
                 num_classes |-> num_classes]
    /\ mdl' = CustomTransformer_init(vocab_size, embed_dim, num_heads, ff_dim,
                                     num_layers, num_classes)
    /\ UNCHANGED <<fwd, mvars>>

\* The record of a finished forward call.
Called(st) ==
    [called |-> TRUE, x |-> st.x, log |-> st.log, err |-> st.err,
     poisoned |-> st.poisoned]

\* forward() reads the model and changes nothing: one call per test case.
ForwardCall(batch, seq_len, ids, dev, late) ==
    /\ mdl.built
    /\ ~fwd.called
    /\ fwd' = Called(CustomTransformer_forward(
                       mdl, [shape |-> <<batch, seq_len>>, ids |-> ids], dev, late))
    /\ UNCHANGED <<mdl, cargs, mvars>>

NextModel ==
    \/ \E e \in 1..MaxEmbed, h \in 1..MaxHeads, f \in 1..MaxFF,
          l \in 0..MaxLayers, c \in 1..MaxClasses :
          Construct(e, h, f, l, c)
    \/ \E b \in 1..MaxBatch, s \in SeqLens, ids \in IdSets,
          dev \in {"cpu", "cuda"}, late \in BOOLEAN :
          ForwardCall(b, s, ids, dev, late)

SpecModel == InitModel /\ [][NextModel]_vars

\* ------------------------------------------------------------ main()
\* The two main() functions have one skeleton; path tells the statements
\* apart where the cells differ.
Csv(n, s, k) ==
    [smiles |-> [i \in 1..n |-> s], compound |-> [i \in 1..n |-> (i - 1) % k]]

\* SMILES strings of the CSV rows and of the user's input: empty, one
\* character (ASCII or not), max_len characters and up to Over more.
DataSmiles ==
    {Repeat(c, n) : c \in Chars, n \in 0..1}
    \cup {Repeat("C", n) : n \in max_len..(max_len + Over)}

\* Runs of main(): either cell on either device over a few rows, and the
\* custom cell over enough rows for a second training batch.
Runs ==
    {[path |-> p, device |-> d, csv |-> Csv(n, s, k)] :
        p \in {"custom"}, d \in {"cpu", "cuda"}, n \in 0..SmallRows,
        s \in DataSmiles, k \in 1..MaxClasses}
    \cup {[path |-> "bert", device |-> d, csv |-> Csv(n, <<"C">>, k)] :
        d \in {"cpu", "cuda"}, n \in 0..SmallRows, k \in 1..MaxClasses}
    \cup {[path |-> "custom", device |-> "cpu", csv |-> Csv(BigRows, <<"C">>, 1)]}
    \cup {[path |-> "custom", device |-> "cpu", csv |-> Csv(MidRows, <<"C">>, 2)]}

Init ==
    /\ mdl = NoModel
    /\ cargs = [called |-> FALSE]
    /\ fwd = NoForward
    /\ pc = "start"
    /\ \E r \in Runs :
          /\ path = r.path
          /\ device = r.device
          /\ csv = r.csv
    /\ Unassigned

constVars == <<path, device, csv>>
setupVars == <<classes, train_dataset, test_dataset, model>>
optVars == <<params, grad, step_grad, opt_steps>>
modeVars == <<training, grad_enabled>>
schedVars == <<last_epoch, lr_halvings>>
loopVars == <<epoch, remaining, batch_no>>
batchVars == <<smiles, labels>>
resultVars == <<outputs, loss, total_loss, correct, total>>
predVars == <<input_smiles, inputs, predicted_label>>

NumClasses == Cardinality(classes)

SubSeqRows(col, from, to) == [i \in 1..(to - from + 1) |-> col[from + i - 1]]

\* Lines 174-198 (439-452): load and encode the labels, split, build the
\* datasets, the model, the optimizer and the scheduler.
Setup ==
    /\ pc = "start"
    /\ LET n == Len(csv.smiles)
           cls == Range(csv.compound)
           label == [i \in 1..n |-> LabelOf(cls, csv.compound[i])]
           nt == NumTest(n)
       IN  /\ classes' = cls
           /\ IF NumTrain(n) = 0
              THEN /\ pc' = "raised"
                   /\ err' = "train_test_split: the resulting train set will be empty"
                   /\ UNCHANGED <<train_dataset, test_dataset, model, params>>
              ELSE /\ test_dataset' = [smiles |-> SubSeqRows(csv.smiles, 1, nt),
                                       labels |-> SubSeqRows(label, 1, nt),
                                       max_len |-> max_len]
                   /\ train_dataset' = [smiles |-> SubSeqRows(csv.smiles, nt + 1, n),
                                        labels |-> SubSeqRows(label, nt + 1, n),
                                        max_len |-> max_len]
                   /\ model' = IF path = "custom"
                               THEN CustomTransformer_init(vocab_size, main_embed_dim,
                                        main_num_heads, main_ff_dim, main_num_layers,
                                        Cardinality(cls))
                               ELSE [built |-> TRUE, num_labels |-> Cardinality(cls)]
                   /\ params' = [t \in ParamNames(path) |-> 0]
                   /\ pc' = "epoch"
                   /\ err' = "none"
    /\ UNCHANGED <<hvars, constVars, grad, step_grad, opt_steps, modeVars, schedVars,
                   loopVars, batchVars, resultVars, predVars, cuda_fault, iter_ops>>

\* An epoch that starts without model.train().
EpochStartNoTrain ==
    /\ pc = "epoch"
    /\ epoch < NumEpochs(path)
    /\ total_loss' = 0
    /\ remaining' = 1..Len(train_dataset.smiles)
    /\ batch_no' = 0
    /\ pc' = "train_iter"
    /\ UNCHANGED <<hvars, constVars, setupVars, optVars, modeVars, schedVars, epoch,
                   batchVars, outputs, loss, correct, total, predVars, err, cuda_fault,
                   iter_ops>>

\* for epoch in range(...): model.train(); total_loss = 0
EpochStart ==
    /\ pc = "epoch"
    /\ epoch < NumEpochs(path)
    /\ training' = TRUE
    /\ total_loss' = 0
    /\ remaining' = 1..Len(train_dataset.smiles)
    /\ batch_no' = 0
    /\ pc' = "train_iter"
    /\ UNCHANGED <<hvars, constVars, setupVars, optVars, grad_enabled, schedVars, epoch,
                   batchVars, outputs, loss, correct, total, predVars, err, cuda_fault,
                   iter_ops>>

\* The epoch loop is exhausted.
EpochsDone ==
    /\ pc = "epoch"
    /\ epoch >= NumEpochs(path)
    /\ pc' = "input"
    /\ UNCHANGED <<hvars, constVars, setupVars, optVars, modeVars, schedVars, loopVars,
                   batchVars, resultVars, predVars, err, cuda_fault, iter_ops>>

\* for smiles, labels in train_loader (shuffle=True): the next batch is any
\* batch_size of the rows not served yet (all of them when fewer are left).
TrainBatch ==
    /\ pc = "train_iter"
    /\ remaining # {}
    /\ \E leftover \in KSubsets(remaining,
                        Cardinality(remaining) - Min(batch_size, Cardinality(remaining))) :
          LET c == Collate(path, train_dataset, remaining \ leftover)
          IN  /\ remaining' = leftover
              /\ batch_no' = batch_no + 1
              /\ iter_ops' = <<>>
              /\ IF c.ok
                 THEN /\ smiles' = c.smiles
                      /\ labels' = c.labels
                      /\ pc' = "zero_grad"
                      /\ err' = "none"
                 ELSE /\ pc' = "raised"
                      /\ err' = "stack expects each tensor to be equal size"
                      /\ UNCHANGED batchVars
    /\ UNCHANGED <<hvars, constVars, setupVars, optVars, modeVars, schedVars, epoch,
                   resultVars, predVars, cuda_fault>>

\* The training loader is exhausted.
TrainLoopEnd ==
    /\ pc = "train_iter"
    /\ remaining = {}
    /\ pc' = IF path = "custom" THEN "sched" ELSE "print_loss"
    /\ UNCHANGED <<hvars, constVars, setupVars, optVars, modeVars, schedVars, loopVars,
                   batchVars, resultVars, predVars, err, cuda_fault, iter_ops>>

\* optimizer.zero_grad()
ZeroGradStep ==
    /\ pc = "zero_grad"
    /\ grad' = ZeroGrad(grad)
    /\ iter_ops' = Append(iter_ops, "zero_grad")
    /\ pc' = "forward"
    /\ UNCHANGED <<hvars, constVars, setupVars, params, step_grad, opt_steps, modeVars,
                   schedVars, loopVars, batchVars, resultVars, predVars, err, cuda_fault>>

\* outputs = model(smiles)
TrainForward ==
    /\ pc = "forward"
    /\ \E late \in BOOLEAN : outputs' = ModelCall(path, model, smiles, device, late)
    /\ cuda_fault' = (cuda_fault \/ outputs'.poisoned)
    /\ pc' = IF outputs'.ok THEN "loss" ELSE "raised"
    /\ err' = outputs'.err
    /\ params' = ForwardEffect(params)
    /\ iter_ops' = Append(iter_ops, "forward")
    /\ UNCHANGED <<hvars, constVars, setupVars, grad, step_grad, opt_steps, modeVars,
                   schedVars, loopVars, batchVars, loss, total_loss, correct, total,
                   predVars>>

\* loss = loss_fn(outputs, labels)
LossStep ==
    /\ pc = "loss"
    /\ loss' = <<epoch, batch_no>>
    /\ iter_ops' = Append(iter_ops, "loss")
    /\ pc' = "backward"
    /\ UNCHANGED <<hvars, constVars, setupVars, optVars, modeVars, schedVars, loopVars,
                   batchVars, outputs, total_loss, correct, total, predVars, err,
                   cuda_fault>>

\* loss.backward()
BackwardStep ==
    /\ pc = "backward"
    /\ grad' = Backward(grad, loss)
    /\ iter_ops' = Append(iter_ops, "backward")
    /\ pc' = "opt_step"
    /\ UNCHANGED <<hvars, constVars, setupVars, params, step_grad, opt_steps, modeVars,
                   schedVars, loopVars, batchVars, resultVars, predVars, err, cuda_fault>>

\* optimizer.step()
OptStep ==
    /\ pc = "opt_step"
    /\ params' = OptimizerStep(params)
    /\ step_grad' = grad
    /\ opt_steps' = opt_steps + 1
    /\ iter_ops' = Append(iter_ops, "step")
    /\ pc' = "accum"
    /\ UNCHANGED <<hvars, constVars, setupVars, grad, modeVars, schedVars, loopVars,
                   batchVars, resultVars, predVars, err, cuda_fault>>

\* total_loss += loss.item(): .item() waits for the device.
Accumulate ==
    /\ pc = "accum"
    /\ IF cuda_fault
       THEN /\ pc' = "raised"
            /\ err' = "CUDA error: device-side assert triggered"
            /\ UNCHANGED total_loss
       ELSE /\ total_loss' = total_loss + 1
            /\ pc' = "train_iter"
            /\ UNCHANGED err
    /\ UNCHANGED <<hvars, constVars, setupVars, optVars, modeVars, schedVars, loopVars,
                   batchVars, outputs, loss, correct, total, predVars, cuda_fault,
                   iter_ops>>

\* A scheduler that halves the rate one epoch early.
SchedulerStepEarly ==
    /\ pc = "sched"
    /\ last_epoch' = last_epoch + 1
    /\ lr_halvings' = IF last_epoch % step_size = 0
                      THEN lr_halvings + 1 ELSE lr_halvings
    /\ pc' = "print_loss"
    /\ UNCHANGED <<hvars, constVars, setupVars, optVars, modeVars, loopVars, batchVars,
                   resultVars, predVars, err, cuda_fault, iter_ops>>

\* scheduler.step() of StepLR(step_size=5, gamma=0.5)
SchedulerStep ==
    /\ pc = "sched"
    /\ last_epoch' = last_epoch + 1
    /\ lr_halvings' = IF (last_epoch + 1) % step_size = 0
                      THEN lr_halvings + 1 ELSE lr_halvings
    /\ pc' = "print_loss"
    /\ UNCHANGED <<hvars, constVars, setupVars, optVars, modeVars, loopVars, batchVars,
                   resultVars, predVars, err, cuda_fault, iter_ops>>

\* len(train_loader)
NumBatches(dataset) == (Len(dataset.smiles) + batch_size - 1) \div batch_size

\* total_loss / len(train_loader)
PrintLoss ==
    /\ pc = "print_loss"
    /\ IF NumBatches(train_dataset) = 0
       THEN pc' = "raised" /\ err' = "ZeroDivisionError"
       ELSE pc' = "eval" /\ err' = "none"
    /\ UNCHANGED <<hvars, constVars, setupVars, optVars, modeVars, schedVars, loopVars,
                   batchVars, resultVars, predVars, cuda_fault, iter_ops>>

\* A validation that starts without resetting its counters.
EvalModeNoReset ==
    /\ pc = "eval"
    /\ training' = FALSE
    /\ grad_enabled' = FALSE
    /\ remaining' = 1..Len(test_dataset.smiles)
    /\ batch_no' = 0
    /\ pc' = "val_iter"
    /\ UNCHANGED <<hvars, constVars, setupVars, optVars, schedVars, epoch, batchVars,
                   resultVars, predVars, err, cuda_fault, iter_ops>>

\* model.eval(); correct = 0; total = 0; with torch.no_grad():
EvalMode ==
    /\ pc = "eval"
    /\ training' = FALSE
    /\ correct' = 0
    /\ total' = 0
    /\ grad_enabled' = FALSE
    /\ remaining' = 1..Len(test_dataset.smiles)
    /\ batch_no' = 0
    /\ pc' = "val_iter"
    /\ UNCHANGED <<hvars, constVars, setupVars, optVars, schedVars, epoch, batchVars,
                   outputs, loss, total_loss, predVars, err, cuda_fault, iter_ops>>

\* The first n elements of a set of rows, in row order.
FirstRows(S, n) == {x \in S : Cardinality({y \in S : y < x}) < n}

\* for smiles, labels in test_loader (shuffle=False)
ValBatch ==
    /\ pc = "val_iter"
    /\ remaining # {}
    /\ LET rows == FirstRows(remaining, batch_size)
           c == Collate(path, test_dataset, rows)
       IN  /\ remaining' = remaining \ rows
           /\ batch_no' = batch_no + 1
           /\ IF c.ok
              THEN /\ smiles' = c.smiles
                   /\ labels' = c.labels
                   /\ pc' = "val_forward"
                   /\ err' = "none"
                   /\ UNCHANGED grad_enabled
              ELSE /\ pc' = "raised"
                   /\ err' = "stack expects each tensor to be equal size"
                   /\ grad_enabled' = TRUE
                   /\ UNCHANGED batchVars
    /\ UNCHANGED <<hvars, constVars, setupVars, optVars, training, schedVars, epoch,
                   resultVars, predVars, cuda_fault, iter_ops>>

\* The test loader is exhausted: the no_grad block ends.
ValLoopEnd ==
    /\ pc = "val_iter"
    /\ remaining = {}
    /\ grad_enabled' = TRUE
    /\ pc' = "print_acc"
    /\ UNCHANGED <<hvars, constVars, setupVars, optVars, training, schedVars, loopVars,
                   batchVars, resultVars, predVars, err, cuda_fault, iter_ops>>

\* outputs = model(smiles) of the validation loop
ValForward ==
    /\ pc = "val_forward"
    /\ \E late \in BOOLEAN : outputs' = ModelCall(path, model, smiles, device, late)
    /\ cuda_fault' = (cuda_fault \/ outputs'.poisoned)
    /\ pc' = IF outputs'.ok THEN "val_count" ELSE "raised"
    /\ grad_enabled' = ~outputs'.ok
    /\ err' = outputs'.err
    /\ params' = ForwardEffect(params)
    /\ UNCHANGED <<hvars, constVars, setupVars, grad, step_grad, opt_steps, training,
                   schedVars, loopVars, batchVars, loss, total_loss, correct, total,
                   predVars, iter_ops>>

\* _, predicted = torch.max(outputs, 1); total += labels.size(0);
\* correct += (predicted == labels).sum().item()
ValCount ==
    /\ pc = "val_count"
    /\ IF cuda_fault
       THEN /\ pc' = "raised"
            /\ err' = "CUDA error: device-side assert triggered"
            /\ grad_enabled' = TRUE
            /\ total' = total + Len(labels)
            /\ UNCHANGED correct
       ELSE \E predicted \in [1..Len(labels) -> 0..(outputs.shape[2] - 1)] :
               /\ total' = total + Len(labels)
               /\ correct' = correct +
                     Cardinality({i \in 1..Len(labels) : predicted[i] = labels[i]})
               /\ pc' = "val_iter"
               /\ UNCHANGED <<err, grad_enabled>>
    /\ UNCHANGED <<hvars, constVars, setupVars, optVars, training, schedVars, loopVars,
                   batchVars, outputs, loss, total_loss, predVars, cuda_fault, iter_ops>>

\* 100 * correct / total, and the loop moves to the next epoch.
PrintAcc ==
    /\ pc = "print_acc"
    /\ IF total = 0
       THEN pc' = "raised" /\ err' = "ZeroDivisionError" /\ UNCHANGED epoch
       ELSE pc' = "epoch" /\ err' = "none" /\ epoch' = epoch + 1
    /\ UNCHANGED <<hvars, constVars, setupVars, optVars, modeVars, schedVars, remaining,
                   batch_no, batchVars, resultVars, predVars, cuda_fault, iter_ops>>

\* input_smiles = input("Enter SMILES string: ")
Input ==
    /\ pc = "input"
    /\ input_smiles' \in DataSmiles
    /\ pc' = IF path = "custom" THEN "predict_eval" ELSE "encode"
    /\ UNCHANGED <<hvars, constVars, setupVars, optVars, modeVars, schedVars, loopVars,
                   batchVars, resultVars, inputs, predicted_label, err, cuda_fault,
                   iter_ops>>

\* model.eval() before the prediction
PredictEval ==
    /\ pc = "predict_eval"
    /\ training' = FALSE
    /\ pc' = IF path = "custom" THEN "encode" ELSE "predict_forward"
    /\ UNCHANGED <<hvars, constVars, setupVars, optVars, grad_enabled, schedVars,
                   loopVars, batchVars, resultVars, predVars, err, cuda_fault, iter_ops>>

\* The user's string becomes a batch of one token sequence.
Encode ==
    /\ pc = "encode"
    /\ inputs' = IF path = "custom" THEN EncodeInput(input_smiles)
                 ELSE [shape |-> <<1, bert_max_length>>,
                       ids |-> Range(Tokenizer(input_smiles)),
                       rows |-> {Tokenizer(input_smiles)}]
    /\ pc' = IF path = "custom" THEN "predict_forward" ELSE "predict_eval"
    /\ UNCHANGED <<hvars, constVars, setupVars, optVars, modeVars, schedVars, loopVars,
                   batchVars, resultVars, input_smiles, predicted_label, err,
                   cuda_fault, iter_ops>>

\* with torch.no_grad(): outputs = model(inputs)
PredictForward ==
    /\ pc = "predict_forward"
    /\ \E late \in BOOLEAN : outputs' = ModelCall(path, model, inputs, device, late)
    /\ cuda_fault' = (cuda_fault \/ outputs'.poisoned)
    /\ pc' = IF outputs'.ok THEN "argmax" ELSE "raised"
    /\ grad_enabled' = ~outputs'.ok
    /\ err' = outputs'.err
    /\ params' = ForwardEffect(params)
    /\ UNCHANGED <<hvars, constVars, setupVars, grad, step_grad, opt_steps, training,
                   schedVars, loopVars, batchVars, loss, total_loss, correct, total,
                   predVars, iter_ops>>

\* predicted_label = torch.argmax(outputs, dim=1).item(); the no_grad block ends.
Argmax ==
    /\ pc = "argmax"
    /\ grad_enabled' = TRUE
    /\ IF cuda_fault
       THEN /\ pc' = "raised"
            /\ err' = "CUDA error: device-side assert triggered"
            /\ UNCHANGED predicted_label
       ELSE /\ predicted_label' \in 0..(outputs.shape[2] - 1)
            /\ pc' = "inverse"
            /\ UNCHANGED err
    /\ UNCHANGED <<hvars, constVars, setupVars, optVars, training, schedVars, loopVars,
                   batchVars, resultVars, input_smiles, inputs, cuda_fault, iter_ops>>

\* label_encoder.inverse_transform([predicted_label])[0]
Inverse ==
    /\ pc = "inverse"
    /\ IF predicted_label \in 0..(NumClasses - 1)
       THEN pc' = "done" /\ err' = "none"
       ELSE pc' = "raised" /\ err' = "inverse_transform: unseen label"
    /\ UNCHANGED <<hvars, constVars, setupVars, optVars, modeVars, schedVars, loopVars,
                   batchVars, resultVars, predVars, cuda_fault, iter_ops>>

Running == pc \notin {"idle", "start", "raised", "done"}

\* A failed device-side assertion may surface at any later CUDA call.
CudaErrorSurfaces ==
    /\ Running
    /\ cuda_fault
    /\ pc' = "raised"
    /\ err' = "CUDA error: device-side assert triggered"
    /\ grad_enabled' = TRUE
    /\ UNCHANGED <<hvars, constVars, setupVars, optVars, training, schedVars, loopVars,
                   batchVars, resultVars, predVars, cuda_fault, iter_ops>>

Next ==
    \/ Setup
    \/ EpochStart
    \/ EpochsDone
    \/ TrainBatch
    \/ TrainLoopEnd
    \/ ZeroGradStep
    \/ TrainForward
    \/ LossStep
    \/ BackwardStep
    \/ OptStep
    \/ Accumulate
    \/ SchedulerStep
    \/ PrintLoss
    \/ EvalMode
    \/ ValBatch
    \/ ValLoopEnd
    \/ ValForward
    \/ ValCount
    \/ PrintAcc
    \/ Input
    \/ PredictEval
    \/ Encode
    \/ PredictForward
    \/ Argmax
    \/ Inverse
    \/ CudaErrorSurfaces

Spec == Init /\ [][Next]_vars

\* ------------------------------------------------------------ encoding harness
RECURSIVE SeqsUpTo(_, _)
SeqsUpTo(S, n) ==
    IF n = 0 THEN {<<>>}
    ELSE {<<>>} \cup {<<c>> \o s : c \in S, s \in SeqsUpTo(S, n - 1)}

\* Strings to encode: a free prefix of up to MaxHead characters followed by a
\* run of one character, of lengths 0..MaxHead and around max_len.
EncStrings ==
    {h \o Repeat(c, n) : h \in SeqsUpTo(Chars, MaxHead), c \in Chars,
                         n \in {0} \cup ((max_len - MaxHead)..(max_len + Over))}

\* main's encoding of one input string.
EncodeCall(s) ==
    /\ inputs = NoTensor
    /\ input_smiles' = s
    /\ inputs' = EncodeInput(s)
    /\ UNCHANGED <<hvars, pc, constVars, setupVars, optVars, modeVars, schedVars,
                   loopVars, batchVars, resultVars, predicted_label, err, cuda_fault,
                   iter_ops>>

\* SmilesDataset(...)[0] of a dataset of one string, as a loader stacks it.
GetItemCall(s) ==
    /\ smiles = NoTensor
    /\ train_dataset' = [smiles |-> <<s>>, labels |-> <<0>>, max_len |-> max_len]
    /\ smiles' = Collate("custom", train_dataset', {1}).smiles
    /\ labels' = Collate("custom", train_dataset', {1}).labels
    /\ UNCHANGED <<hvars, pc, constVars, classes, test_dataset, model, optVars, modeVars,
                   schedVars, loopVars, resultVars, predVars, err, cuda_fault, iter_ops>>

NextEncode ==
    \/ \E s \in EncStrings : EncodeCall(s)
    \/ \E s \in EncStrings : GetItemCall(s)

SpecEncode == InitModel /\ [][NextEncode]_vars

\* ------------------------------------------------------------ reading a pass
Matches(e, layer, mod, op) == e.layer = layer /\ e.mod = mod /\ e.op = op

Has(log, layer, mod, op) == \E k \in 1..Len(log) : Matches(log[k], layer, mod, op)

Count(log, layer, mod, op) ==
    Cardinality({k \in 1..Len(log) : Matches(log[k], layer, mod, op)})

\* The tensor an operation produced (its position in the pass).
Idx(log, layer, mod, op) == CHOOSE k \in 1..Len(log) : Matches(log[k], layer, mod, op)

ShapeIn(f, id) == IF id = 0 THEN f.x.shape ELSE f.log[id].shape

IsPrefix(a, b) == Len(a) <= Len(b) /\ \A k \in 1..Len(a) : a[k] = b[k]

\* The statements of CustomTransformer.forward, a block counting as one step
\* (recorded when its last operation, norm2, has run).
TopEntry(e) == e.mod = "model" \/ (e.mod = "block" /\ e.op = "norm2")

TopSteps(log) ==
    LET sel == SelectSeq(log, TopEntry)
    IN  [k \in 1..Len(sel) |-> [op |-> sel[k].op, layer |-> sel[k].layer]]

ExpectedSteps(num_layers) ==
    <<[op |-> "embedding", layer |-> 0], [op |-> "positional_encoding", layer |-> 0],
      [op |-> "add_pos", layer |-> 0]>>
    \o [i \in 1..num_layers |-> [op |-> "norm2", layer |-> i]]
    \o <<[op |-> "mean", layer |-> 0], [op |-> "fc", layer |-> 0]>>

\* The tensor block i reads: the embedded input, or the previous block's output.
BlockInput(log, i) ==
    IF i = 1 THEN Idx(log, 0, "model", "add_pos") ELSE Idx(log, i - 1, "block", "norm2")

SeqLenOf(f) == f.x.shape[2]
BatchOf(f) == f.x.shape[1]
Returned(f) == f.called /\ f.err = "none"

\* C2: a forward pass of CustomTransformer on a (batch, seq_len) input with
\* seq_len <= 100 runs embedding lookup, the first seq_len rows of the
\* positional encoding and their sum, then the blocks 1..num_layers in list
\* order, each once and each on the previous step's output, then the mean over
\* the sequence axis, then the final projection; a pass that returns has run all
\* of them and its result has shape (batch, num_classes).  A pass ended by an
\* exception has run a prefix of this order.
C2_ForwardOrder ==
    (fwd.called /\ SeqLenOf(fwd) <= pos_rows) =>
        LET log == fwd.log
            L == cargs.num_layers
        IN  /\ IsPrefix(TopSteps(log), ExpectedSteps(L))
            /\ Has(log, 0, "model", "add_pos") =>
                  /\ log[Idx(log, 0, "model", "add_pos")].args =
                        <<Idx(log, 0, "model", "embedding"),
                          Idx(log, 0, "model", "positional_encoding")>>
                  /\ log[Idx(log, 0, "model", "positional_encoding")].shape =
                        <<1, SeqLenOf(fwd), cargs.embed_dim>>
                  /\ log[Idx(log, 0, "model", "embedding")].args = <<0>>
            /\ \A i \in 1..L :
                  /\ Count(log, i, "block", "norm2") <= 1
                  /\ Count(log, i, "attention", "query") <= 1
                  /\ Has(log, i, "attention", "query") =>
                        log[Idx(log, i, "attention", "query")].args = <<BlockInput(log, i)>>
            /\ Has(log, 0, "model", "mean") =>
                  log[Idx(log, 0, "model", "mean")].args =
                     <<IF L = 0 THEN Idx(log, 0, "model", "add_pos")
                       ELSE Idx(log, L, "block", "norm2")>>
            /\ Has(log, 0, "model", "fc") =>
                  log[Idx(log, 0, "model", "fc")].args = <<Idx(log, 0, "model", "mean")>>
            /\ fwd.err = "none" =>
                  /\ TopSteps(log) = ExpectedSteps(L)
                  /\ log[Len(log)].op = "fc"
                  /\ log[Len(log)].shape = <<BatchOf(fwd), cargs.num_classes>>

\* A pass over a full-length input through two blocks that returns logits.
C2_Witness ==
    /\ Returned(fwd)
    /\ cargs.num_layers = 2
    /\ SeqLenOf(fwd) = pos_rows
    /\ fwd.log[Len(fwd.log)].shape = <<BatchOf(fwd), cargs.num_classes>>

\* What block i has executed is in the order and with the operands of
\* TransformerBlock.forward.
BlockOrder(log, i) ==
    LET x == log[Idx(log, i, "attention", "query")].args[1]
        At(mod, op) == Idx(log, i, mod, op)
    IN  /\ Has(log, i, "attention", "key") => log[At("attention", "key")].args = <<x>>
        /\ Has(log, i, "attention", "value") => log[At("attention", "value")].args = <<x>>
        /\ Has(log, i, "block", "add1") =>
              /\ log[At("block", "add1")].args = <<x, At("attention", "fc_out")>>
              /\ At("attention", "fc_out") < At("block", "add1")
        /\ Has(log, i, "block", "norm1") =>
              log[At("block", "norm1")].args = <<At("block", "add1")>>
        /\ Has(log, i, "ffn", "fc1") =>
              log[At("ffn", "fc1")].args = <<At("block", "norm1")>>
        /\ Has(log, i, "block", "add2") =>
              /\ log[At("block", "add2")].args = <<At("block", "norm1"), At("ffn", "fc2")>>
              /\ At("block", "norm1") < At("ffn", "fc1")
              /\ At("ffn", "fc2") < At("block", "add2")
        /\ Has(log, i, "block", "norm2") =>
              log[At("block", "norm2")].args = <<At("block", "add2")>>
        /\ \A op \in {"add1", "norm1", "add2", "norm2"} : Count(log, i, "block", op) <= 1
        /\ \A k \in 1..Len(log) :
              (log[k].layer = i /\ log[k].mod = "block") =>
                 log[k].op \in {"add1", "norm1", "add2", "norm2"}

BlockComplete(log, i) ==
    \A op \in {"add1", "norm1", "add2", "norm2"} : Count(log, i, "block", op) = 1

\* C3: TransformerBlock.forward applies two residual sublayers in sequence:
\* x1 = norm1(x + attention(x)), then norm2(x1 + feed_forward(x1)).  The
\* feed-forward reads norm1's output, not the block input, and each
\* normalisation reads the sum it follows.  A block that returns has applied
\* exactly these two additions and two normalisations.
C3_BlockResidualOrder ==
    fwd.called =>
        \A i \in 1..cargs.num_layers :
            /\ Has(fwd.log, i, "attention", "query") => BlockOrder(fwd.log, i)
            /\ fwd.err = "none" => BlockComplete(fwd.log, i)

\* A returned pass whose second block's feed-forward read the second block's
\* norm1 output.
C3_Witness ==
    /\ Returned(fwd)
    /\ cargs.num_layers >= 2
    /\ fwd.log[Idx(fwd.log, 2, "ffn", "fc1")].args = <<Idx(fwd.log, 2, "block", "norm1")>>
    /\ Idx(fwd.log, 2, "block", "norm1") # Idx(fwd.log, 1, "block", "norm2")

\* C4: MultiHeadSelfAttention.forward and FeedForwardNetwork.forward return a
\* tensor of the shape of their (batch, seq_len, embed_dim) input, and the
\* shape after every block of the stack is still (batch, seq_len, embed_dim),
\* for every number of blocks.
C4_ShapePreserved ==
    fwd.called =>
        \A i \in 1..cargs.num_layers :
            LET log == fwd.log
                At(mod, op) == Idx(log, i, mod, op)
            IN  /\ Has(log, i, "attention", "fc_out") =>
                      log[At("attention", "fc_out")].shape =
                         ShapeIn(fwd, log[At("attention", "query")].args[1])
                /\ Has(log, i, "ffn", "fc2") =>
                      log[At("ffn", "fc2")].shape =
                         ShapeIn(fwd, log[At("ffn", "fc1")].args[1])
                /\ Has(log, i, "block", "norm2") =>
                      log[At("block", "norm2")].shape =
                         <<BatchOf(fwd), SeqLenOf(fwd), cargs.embed_dim>>

\* Two stacked blocks with two heads and a feed-forward width different from
\* the embedding width, on a batch of two sequences of two tokens.
C4_Witness ==
    /\ Returned(fwd)
    /\ cargs.num_layers = 2 /\ cargs.num_heads = 2 /\ cargs.ff_dim # cargs.embed_dim
    /\ fwd.x.shape = <<2, 2>>
    /\ fwd.log[Idx(fwd.log, 2, "block", "norm2")].shape = <<2, 2, cargs.embed_dim>>

\* C5: construction succeeds when embed_dim % num_heads == 0 and fails
\* otherwise, so that no attention module with a non-divisible pair exists.
C5_ConstructionRejectsNonDivisible ==
    cargs.called =>
        /\ cargs.embed_dim % cargs.num_heads = 0 => mdl.built
        /\ cargs.embed_dim % cargs.num_heads # 0 => (~mdl.built \/ mdl.layers = <<>>)

\* C6: every MultiHeadSelfAttention instance has
\* num_heads * head_dim = embed_dim.
C6_HeadsCoverEmbedding ==
    mdl.built =>
        \A i \in 1..Len(mdl.layers) :
            mdl.layers[i].attention.num_heads * mdl.layers[i].attention.head_dim
               = mdl.layers[i].attention.embed_dim

\* C7: a forward pass on a sequence longer than the positional-encoding table
\* (100 rows) ends with an error and no logits; a sequence of 1..100 tokens is
\* not rejected for its length (the positional addition, once reached,
\* succeeds).
C7_LengthBound ==
    fwd.called =>
        /\ SeqLenOf(fwd) > pos_rows =>
              /\ fwd.err # "none"
              /\ ~Has(fwd.log, 0, "model", "fc")
              /\ ~Has(fwd.log, 0, "model", "add_pos")
        /\ SeqLenOf(fwd) \in 1..pos_rows =>
              (Has(fwd.log, 0, "model", "positional_encoding") =>
                  Has(fwd.log, 0, "model", "add_pos"))

\* A pass on 101 tokens whose positional addition raised.
C7_Witness ==
    /\ fwd.called
    /\ SeqLenOf(fwd) = pos_rows + 1
    /\ fwd.err = "add: size mismatch"
    /\ Has(fwd.log, 0, "model", "positional_encoding")

\* What attention layer i has executed between the head projections and the
\* weighted sum: scores of every query against every key, scaled, then the
\* softmax directly on the scaled scores.
UnmaskedAttention(f, h, i) ==
    LET log == f.log
        At(op) == Idx(log, i, "attention", op)
    IN  /\ Has(log, i, "attention", "matmul_qk") =>
              /\ log[At("transpose_kt")].args = <<At("transpose_key")>>
              /\ log[At("matmul_qk")].args = <<At("transpose_query"), At("transpose_kt")>>
              /\ log[At("matmul_qk")].shape = <<BatchOf(f), h, SeqLenOf(f), SeqLenOf(f)>>
        /\ Has(log, i, "attention", "scale") =>
              log[At("scale")].args = <<At("matmul_qk")>>
        /\ Has(log, i, "attention", "softmax") =>
              /\ log[At("softmax")].args = <<At("scale")>>
              /\ log[At("softmax")].shape = <<BatchOf(f), h, SeqLenOf(f), SeqLenOf(f)>>
        /\ Has(log, i, "attention", "matmul_av") =>
              log[At("matmul_av")].args = <<At("softmax"), At("transpose_value")>>

\* C11: the custom model has no padding mask.  In every attention layer the
\* softmax is taken directly over the scaled scores of every query position
\* against all seq_len key positions, in every head, whatever ids (padding 0
\* included) the input holds, and the weighted sum reads these weights; the
\* mean pooling reduces all seq_len positions of the last block's output.
C11_NoPaddingMask ==
    fwd.called =>
        /\ \A i \in 1..cargs.num_layers : UnmaskedAttention(fwd, cargs.num_heads, i)
        /\ Has(fwd.log, 0, "model", "mean") =>
              LET mean == fwd.log[Idx(fwd.log, 0, "model", "mean")]
              IN  /\ ShapeIn(fwd, mean.args[1]) =
                        <<BatchOf(fwd), SeqLenOf(fwd), cargs.embed_dim>>
                  /\ mean.shape = <<BatchOf(fwd), cargs.embed_dim>>

\* A returned pass over 100 positions, padding among them, through two heads:
\* the attention weights are 100 by 100 in each head.
C11_Witness ==
    /\ Returned(fwd)
    /\ 0 \in fwd.x.ids
    /\ cargs.num_heads = 2 /\ cargs.num_layers >= 1
    /\ SeqLenOf(fwd) = pos_rows
    /\ fwd.log[Idx(fwd.log, 1, "attention", "softmax")].shape =
          <<BatchOf(fwd), 2, pos_rows, pos_rows>>

\* ------------------------------------------------------------ main(): claims
TrainOrder == <<"zero_grad", "forward", "loss", "backward", "step">>

Forwarding == pc \in {"forward", "val_forward", "predict_forward"}

\* C1: every token sequence handed to the custom model has length exactly
\* max_len: the rows of every batch the loaders collate from
\* SmilesDataset.__getitem__, and the sequence main encodes from the user's
\* input, whatever the length of the string.
C1_SequenceLengthIsMaxLen ==
    path = "custom" =>
        /\ smiles # NoTensor => smiles.shape[2] = max_len
        /\ inputs # NoTensor => inputs.shape[2] = max_len

\* C8: every token id that reaches the embedding lookup of the custom model
\* lies in 0..vocab_size-1: the ids of every batch and of the encoded user
\* input, and no lookup has run on an id outside the range.
C8_TokenIdsInVocabulary ==
    path = "custom" =>
        /\ smiles.ids \subseteq 0..(vocab_size - 1)
        /\ inputs.ids \subseteq 0..(vocab_size - 1)

\* C9: once the model is built, a step changes the parameters only if it is
\* optimizer.step() of the training loop: no forward pass, no step of the
\* validation loop and no step of the prediction changes them.
C9_ParametersChangeOnlyAtOptimizerStep ==
    [][(pc # "start" /\ params' # params) => (pc = "opt_step" /\ training)]_vars

\* A run that trained, validated and predicted to the end: every parameter
\* has been updated once per optimizer step and by nothing else.
C9_Witness ==
    /\ pc = "done"
    /\ opt_steps >= NumEpochs(path)
    /\ \A t \in DOMAIN params : params[t] = opt_steps

\* C10: each training iteration runs zero_grad, forward, loss, backward and
\* optimizer.step in this order; the gradients an optimizer step uses are
\* those of the current batch alone; and when a forward pass (training,
\* validation or prediction) begins, every parameter has received exactly the
\* updates of the completed optimizer steps.
C10_TrainingIterationOrder ==
    /\ IsPrefix(iter_ops, TrainOrder)
    /\ pc = "accum" =>
          /\ iter_ops = TrainOrder
          /\ step_grad = {<<epoch, batch_no>>}
    /\ pc = "forward" => iter_ops = <<"zero_grad">>
    /\ pc = "opt_step" => grad = {<<epoch, batch_no>>}
    /\ Forwarding => \A t \in DOMAIN params : params[t] = opt_steps

\* The optimizer step of the second batch of a later epoch has used the
\* gradients of that batch only.
C10_Witness ==
    /\ pc = "accum"
    /\ epoch >= 1
    /\ batch_no = 2
    /\ iter_ops = TrainOrder
    /\ step_grad = {<<epoch, 2>>}

\* C12: the predicted class index is a valid label.  The logits of the
\* prediction have one entry per distinct 'Compound ID' the label encoder was
\* fitted on, the index argmax returns lies in 0..num_classes-1, and
\* inverse_transform never meets an index it has no label for.
C12_PredictedLabelValid ==
    /\ (path = "custom" /\ model.built) => model.fc.out_features = NumClasses
    /\ pc = "argmax" => outputs.shape = <<1, NumClasses>>
    /\ pc \in {"inverse", "done"} => predicted_label \in 0..(NumClasses - 1)
    /\ err # "inverse_transform: unseen label"

\* A prediction of the custom model over two classes that returned the second
\* label.
C12_Witness ==
    /\ pc = "done"
    /\ path = "custom"
    /\ NumClasses = 2
    /\ predicted_label = 1

\* row is the codes of s in order, then zeros up to n entries.
RightPadded(row, s, n) ==
    /\ Len(row) = n
    /\ \A i \in 1..n : row[i] = IF i <= Len(s) THEN ord(s[i]) ELSE 0

\* C13: for a string s of at most max_len characters, the token sequence
\* built from s (by SmilesDataset.__getitem__ and by main's encoding of the
\* input) has the character code of s[i] at position i, in order, and 0 at
\* every position from len(s) to max_len-1.
C13_RightPadding ==
    /\ (inputs # NoTensor /\ Len(input_smiles) <= max_len) =>
          /\ inputs.rows # {}
          /\ \A row \in inputs.rows : RightPadded(row, input_smiles, max_len)
    /\ (smiles # NoTensor /\ Len(train_dataset.smiles) = 1
          /\ Len(train_dataset.smiles[1]) <= train_dataset.max_len) =>
          /\ smiles.rows # {}
          /\ \A row \in smiles.rows :
                RightPadded(row, train_dataset.smiles[1], train_dataset.max_len)

\* Two different characters followed by a run: 99 characters encoded by
\* main, with one padding zero; and a dataset item of exactly max_len
\* characters, with none.
C13_Witness ==
    /\ inputs # NoTensor
    /\ Len(input_smiles) = max_len - 1
    /\ input_smiles[1] # input_smiles[2]
    /\ \E row \in inputs.rows :
          row[1] = ord(input_smiles[1]) /\ row[2] = ord(input_smiles[2]) /\ row[max_len] = 0
    /\ smiles # NoTensor
    /\ Len(train_dataset.smiles[1]) = max_len
    /\ smiles.shape = <<1, max_len>>

\* Where main() is: in the training loop of an epoch (up to the scheduler
\* step), in the rest of the epoch's body, or past the epoch loop.
InTraining ==
    pc \in {"train_iter", "zero_grad", "forward", "loss", "backward", "opt_step", "accum",
            "sched"}

InValidation ==
    pc \in {"print_loss", "eval", "val_iter", "val_forward", "val_count", "print_acc"}

InPrediction ==
    pc \in {"input", "predict_eval", "encode", "predict_forward", "argmax", "inverse",
            "done"}

\* C14: in the custom-transformer main, scheduler.step() runs once per epoch,
\* after the optimizer steps of the epoch and before its validation, 20 times
\* in all; the learning rate has been halved last_epoch div 5 times, so every
\* optimizer step of epoch e (1-based) uses the initial rate halved
\* (e-1) div 5 times, and the number of halvings is the same throughout the
\* training loop of an epoch.
C14_StepDecayEveryFiveEpochs ==
    path = "custom" =>
        /\ lr_halvings = last_epoch \div step_size
        /\ (pc = "epoch" \/ InTraining) => last_epoch = epoch
        /\ InTraining => lr_halvings = epoch \div step_size
        /\ pc = "sched" => remaining = {}
        /\ InValidation => last_epoch = epoch + 1
        /\ InPrediction => (last_epoch = num_epochs /\ epoch = num_epochs)

\* An optimizer step of the sixth epoch: five scheduler steps so far, the
\* rate halved once.
C14_Witness ==
    /\ path = "custom"
    /\ pc = "opt_step"
    /\ epoch = step_size
    /\ last_epoch = step_size
    /\ lr_halvings = 1

\* C15: every training forward pass runs with the model in train mode; every
\* validation forward pass and the prediction forward pass run with the model
\* in eval mode and gradient tracking disabled; and each epoch after the
\* first finds the model in eval mode, as the validation left it, and puts it
\* back into train mode before its training loop.
C15_ModeDiscipline ==
    /\ pc \in {"train_iter", "zero_grad", "forward", "loss", "backward", "opt_step",
               "accum"} => (training /\ grad_enabled)
    /\ pc \in {"val_iter", "val_forward", "val_count"} => (~training /\ ~grad_enabled)
    /\ pc = "predict_forward" => ~training
    /\ pc = "argmax" => (~training /\ ~grad_enabled)
    /\ (pc = "epoch" /\ epoch >= 1) => ~training

\* The training forward pass of the second epoch: the first epoch's
\* validation has run, and the model is in train mode again.
C15_Witness ==
    /\ pc = "forward"
    /\ epoch = 1
    /\ total >= 1
    /\ training
    /\ grad_enabled

\* C16: correct and total are 0 when an epoch's validation loop starts;
\* 0 <= correct <= total after every validation batch, total being the number
\* of test rows served; when the accuracy is computed total is the number of
\* test examples and is positive; and the average loss is computed over a
\* positive number of batches.  Neither division raises.
C16_AccuracyCounters ==
    /\ 0 <= correct /\ correct <= total
    /\ (pc = "val_iter" /\ batch_no = 0) => (correct = 0 /\ total = 0)
    /\ pc = "val_iter" =>
          total = Len(test_dataset.smiles) - Cardinality(remaining)
    /\ pc = "print_acc" => (total = Len(test_dataset.smiles) /\ total > 0)
    /\ pc = "print_loss" =>
          (NumBatches(train_dataset) > 0 /\ total_loss = NumBatches(train_dataset))
    /\ err # "ZeroDivisionError"

\* The accuracy of a later epoch over two test examples, one of them
\* classified correctly.
C16_Witness ==
    /\ pc = "print_acc"
    /\ epoch >= 1
    /\ Len(test_dataset.smiles) = 2
    /\ total = 2
    /\ correct = 1

====
